---- MODULE Spec2Model ----
(***************************************************************************)
(* Model of rscam (src/src/lib.rs): the Camera capture session, its        *)
(* buffer pool and the Frame handles it hands out, together with the       *)
(* V4L2 device the session talks to through v4l2::xioctl / mmap / munmap.  *)
(*                                                                         *)
(* Every public operation (start, capture, stop, the two destructors) is   *)
(* one action that runs the whole handler.  The outcome of each device     *)
(* request the handler issues is an input of the action.                   *)
(***************************************************************************)
EXTENDS Integers, Sequences, FiniteSets, Bags, TLC

VARIABLES
    state,         \* Camera.state : "Idle" | "Streaming" | "Aborted"
    resolution,    \* Camera.resolution
    format,        \* Camera.format : the four recorded bytes
    buffers,       \* Camera.buffers : sequence of mapped regions (the pool)
    closed,        \* TRUE once v4l2::close(fd) ran (the Camera was dropped)
    frames,        \* bag of the buffer indices held by live Frame values
    mapped,        \* device side: regions currently mapped into the process
    devQueue,      \* device side: buffer indices queued at the device
    devStreaming,  \* device side: streaming enabled
    devCount,      \* device side: buffers granted by the last VIDIOC_REQBUFS
    op,            \* the operation that ran last
    arg,           \* its inputs: the configuration and the device's replies
    result,        \* what it returned: "Ok", an Error variant, or "Panic"
    value,         \* the Vec<FormatInfo> a formats() call returned, else <<>>
    reqs           \* the device requests it issued, in order

vars == <<state, resolution, format, buffers, closed, frames, mapped,
          devQueue, devStreaming, devCount, op, arg, result, value, reqs>>

-----------------------------------------------------------------------------
(* Bounds of the model.                                                    *)

\* largest Config.nbuffers the model tries
MaxBuffers == 2

\* regions the process can have mapped at once; a further mmap fails
MaxMapped == 2

\* most entries the device advertises in one enumeration (of formats, of
\* the sizes of a format, of the intervals of a size)
MaxEntries == 2

-----------------------------------------------------------------------------
(* u32 arithmetic.  A u32 is kept as its four bytes, least significant     *)
(* first, so that the full 32-bit range is available.                      *)

U32(b0, b1, b2, b3) == <<b0, b1, b2, b3>>

Zero32 == U32(0, 0, 0, 0)

\* the exact (64-bit) product of two u32, as eight bytes: the schoolbook
\* product by columns, with the carries propagated upwards
WideMul(a, b) ==
    LET s0 == a[1] * b[1]
        s1 == a[1] * b[2] + a[2] * b[1] + (s0 \div 256)
        s2 == a[1] * b[3] + a[2] * b[2] + a[3] * b[1] + (s1 \div 256)
        s3 == a[1] * b[4] + a[2] * b[3] + a[3] * b[2] + a[4] * b[1] + (s2 \div 256)
        s4 == a[2] * b[4] + a[3] * b[3] + a[4] * b[2] + (s3 \div 256)
        s5 == a[3] * b[4] + a[4] * b[3] + (s4 \div 256)
        s6 == a[4] * b[4] + (s5 \div 256)
    IN <<s0 % 256, s1 % 256, s2 % 256, s3 % 256, s4 % 256, s5 % 256, s6 % 256,
         s6 \div 256>>

\* `*` on u32 as the build computes it: the low 32 bits of the product
WrappingMul(a, b) == SubSeq(WideMul(a, b), 1, 4)

-----------------------------------------------------------------------------
(* Values the model draws its inputs from.                                 *)

\* Field::None = 1, Field::Top = 2 (the enum is #[repr(C)] starting at 1)
FieldNone == 1
FieldTop == 2

YUYV == <<89, 85, 89, 86>>
RGB3 == <<82, 71, 66, 51>>
RGB == <<82, 71, 66>>
MJPG == <<77, 74, 80, 71>>
H264 == <<72, 50, 54, 52>>

\* FormatInfo::fourcc: the four bytes packed little-endian into a u32
\* (the codes used are ASCII, so the value stays below 2^31)
fourcc(fmt) == fmt[1] + fmt[2] * 256 + fmt[3] * 65536 + fmt[4] * 16777216

Resolutions == {<<640, 480>>, <<1280, 720>>}
Fields == {FieldNone, FieldTop}

\* intervals the device may answer with: (1,10), (2,6), (4096, 2^20),
\* (0,1), (1,0) and (2^31, 2^31)
DevIntervals ==
    { <<U32(1, 0, 0, 0), U32(10, 0, 0, 0)>>,
      <<U32(2, 0, 0, 0), U32(6, 0, 0, 0)>>,
      <<U32(0, 16, 0, 0), U32(0, 0, 16, 0)>>,
      <<U32(0, 0, 0, 0), U32(1, 0, 0, 0)>>,
      <<U32(1, 0, 0, 0), U32(0, 0, 0, 0)>>,
      <<U32(0, 0, 0, 128), U32(0, 0, 0, 128)>> }

\* Config::default()
DefaultConfig ==
    [ interval |-> <<U32(1, 0, 0, 0), U32(10, 0, 0, 0)>>,
      resolution |-> <<640, 480>>,
      format |-> YUYV,
      field |-> FieldNone,
      nbuffers |-> 2 ]

\* the values of struct Config the model tries: the default with every
\* buffer count, one with every other field changed, one whose interval
\* has a product of 2^32, and one whose format code is not four bytes long
Configs ==
    {[DefaultConfig EXCEPT !.nbuffers = n] : n \in 1..MaxBuffers}
    \cup {[DefaultConfig EXCEPT !.interval = <<U32(1, 0, 0, 0), U32(3, 0, 0, 0)>>,
                                !.resolution = <<1280, 720>>, !.format = RGB3,
                                !.field = FieldTop, !.nbuffers = 1]}
    \cup {[DefaultConfig EXCEPT !.interval = <<U32(0, 16, 0, 0), U32(0, 0, 16, 0)>>]}
    \cup {[DefaultConfig EXCEPT !.format = RGB]}

-----------------------------------------------------------------------------
(* Device requests and their outcomes.                                     *)

\* one entry of the request log
Req(rq, idx, ok) == [rq |-> rq, idx |-> idx, ok |-> ok]

\* what VIDIOC_S_FMT leaves in the v4l2::Format, or the request failing
NoFmt == [ok |-> FALSE, resolution |-> <<0, 0>>, pixelformat |-> 0, field |-> 0]
\* (the replies tried differ from 640x480 YUYV progressive in none, one or
\* all of resolution, pixel format and field)
FmtReplies ==
    LET Changed(r) == (IF r.resolution # <<640, 480>> THEN 1 ELSE 0)
                      + (IF r.pixelformat # fourcc(YUYV) THEN 1 ELSE 0)
                      + (IF r.field # FieldNone THEN 1 ELSE 0)
    IN {r \in [ ok : {TRUE}, resolution : Resolutions,
                pixelformat : {fourcc(YUYV), fourcc(RGB3)}, field : Fields ] :
           Changed(r) \in {0, 1, 3}}
       \cup {NoFmt}

\* what VIDIOC_S_PARM leaves in parm.timeperframe, or the request failing
NoParm == [ok |-> FALSE, timeperframe |-> <<Zero32, Zero32>>]
ParmReplies == [ok : {TRUE}, timeperframe : DevIntervals] \cup {NoParm}

\* where alloc_buffers is made to fail
NoFail == [at |-> "none", i |-> 0]
AllocFails(n) ==
    {NoFail, [at |-> "reqbufs", i |-> 0]}
    \cup [at : {"querybuf", "mmap"}, i : 0..(n - 1)]

\* which munmap calls of free_buffers are made to fail, as positions in the
\* pool: none, the first one only, or all
UnmapFails(len) == {{}, {1} \cap (1..len), 1..len}

\* where streamon is made to fail
OnFails(len) == {NoFail, [at |-> "streamon", i |-> 0]} \cup [at : {"qbuf"}, i : 0..(len - 1)]

\* the address mmap returns: the lowest region not mapped
NewRegion(mp) == CHOOSE r \in 0..Cardinality(mp) : r \notin mp /\ \A q \in 0..(r - 1) : q \in mp

\* the inputs of an operation that are not used keep these values
NoArg == [cfg |-> DefaultConfig, fmt |-> NoFmt, parm |-> NoParm,
          alloc |-> NoFail, on |-> NoFail, ok |-> TRUE, unmapFail |-> {}, idx |-> 0,
          cat |-> <<>>, failAt |-> 0]

-----------------------------------------------------------------------------
(* The private helpers of Camera, as functions of the state they touch.    *)

\* Camera::tune_format
TuneFormat_LengthAfter(resol, fmt, field, reply) ==
    IF ~reply.ok THEN [res |-> "Io", reqs |-> <<Req("S_FMT", 0, FALSE)>>]
    ELSE LET r == IF Len(fmt) # 4 THEN "BadFormat"
                  ELSE IF reply.resolution # resol THEN "BadResolution"
                  ELSE IF fourcc(fmt) # reply.pixelformat THEN "BadFormat"
                  ELSE IF field # reply.field THEN "BadField"
                  ELSE "Ok"
         IN [res |-> r, reqs |-> <<Req("S_FMT", 0, TRUE)>>]
TuneFormat(resol, fmt, field, reply) ==
    IF Len(fmt) # 4 THEN [res |-> "BadFormat", reqs |-> <<>>]
    ELSE IF ~reply.ok THEN [res |-> "Io", reqs |-> <<Req("S_FMT", 0, FALSE)>>]
    ELSE LET r == IF reply.resolution # resol THEN "BadResolution"
                  ELSE IF fourcc(fmt) # reply.pixelformat THEN "BadFormat"
                  ELSE IF field # reply.field THEN "BadField"
                  ELSE "Ok"
         IN [res |-> r, reqs |-> <<Req("S_FMT", 0, TRUE)>>]

\* Camera::tune_stream
TuneStream(interval, reply) ==
    IF ~reply.ok THEN [res |-> "Io", reqs |-> <<Req("S_PARM", 0, FALSE)>>]
    ELSE LET time == reply.timeperframe
             x == WrappingMul(time[1], interval[2])
             y == WrappingMul(time[2], interval[1])
             r == IF x = Zero32 \/ y = Zero32 THEN "BadInterval"
                  ELSE IF x # y THEN "BadInterval"
                  ELSE "Ok"
         IN [res |-> r, reqs |-> <<Req("S_PARM", 0, TRUE)>>]

\* the loop of Camera::alloc_buffers from index i on
RECURSIVE AllocLoop(_, _, _, _, _, _)
AllocLoop(i, n, bufs, mp, fail, log) ==
    IF i = n THEN [res |-> "Ok", buffers |-> bufs, mapped |-> mp, reqs |-> log]
    ELSE IF fail = [at |-> "querybuf", i |-> i]
    THEN [res |-> "Io", buffers |-> bufs, mapped |-> mp,
          reqs |-> Append(log, Req("QUERYBUF", i, FALSE))]
    ELSE IF fail = [at |-> "mmap", i |-> i] \/ Cardinality(mp) >= MaxMapped
    THEN [res |-> "Io", buffers |-> bufs, mapped |-> mp,
          reqs |-> log \o <<Req("QUERYBUF", i, TRUE), Req("MMAP", i, FALSE)>>]
    ELSE LET r == NewRegion(mp)
         IN AllocLoop(i + 1, n, Append(bufs, r), mp \cup {r}, fail,
                      log \o <<Req("QUERYBUF", i, TRUE), Req("MMAP", r, TRUE)>>)

\* Camera::alloc_buffers; count and queue are the device's after the call
AllocBuffers(bufs, mp, cnt, queue, nbuffers, fail) ==
    IF fail.at = "reqbufs"
    THEN [res |-> "Io", buffers |-> bufs, mapped |-> mp, count |-> cnt,
          queue |-> queue, reqs |-> <<Req("REQBUFS", nbuffers, FALSE)>>]
    ELSE LET l == AllocLoop(0, nbuffers, bufs, mp, fail, <<Req("REQBUFS", nbuffers, TRUE)>>)
         IN [res |-> l.res, buffers |-> l.buffers, mapped |-> l.mapped,
             count |-> nbuffers, queue |-> {}, reqs |-> l.reqs]

\* the loop of Camera::free_buffers from position p on; unmapFail is the
\* set of positions whose munmap fails (such a region stays mapped)
RECURSIVE FreeLoop(_, _, _, _, _, _)
FreeLoop(p, bufs, mp, unmapFail, res, log) ==
    IF p > Len(bufs) THEN [res |-> res, mapped |-> mp, reqs |-> log]
    ELSE IF p \in unmapFail
    THEN FreeLoop(p + 1, bufs, mp, unmapFail, "Io",
                  Append(log, Req("MUNMAP", bufs[p], FALSE)))
    ELSE FreeLoop(p + 1, bufs, mp \ {bufs[p]}, unmapFail, res,
                  Append(log, Req("MUNMAP", bufs[p], TRUE)))

\* Camera::free_buffers
FreeBuffers_StopAtError(bufs, mp, unmapFail) ==
    LET last == IF unmapFail \cap (1..Len(bufs)) = {} THEN Len(bufs)
                ELSE CHOOSE p \in unmapFail \cap (1..Len(bufs)) :
                        \A q \in unmapFail \cap (1..Len(bufs)) : p <= q
        l == FreeLoop(1, SubSeq(bufs, 1, last), mp, unmapFail, "Ok", <<>>)
    IN [res |-> l.res, buffers |-> <<>>, mapped |-> l.mapped, reqs |-> l.reqs]
FreeBuffers(bufs, mp, unmapFail) ==
    LET l == FreeLoop(1, bufs, mp, unmapFail, "Ok", <<>>)
    IN [res |-> l.res, buffers |-> <<>>, mapped |-> l.mapped, reqs |-> l.reqs]

\* the enqueue loop of Camera::streamon from index i on; the device rejects
\* an index it has not granted
RECURSIVE QueueLoop(_, _, _, _, _, _)
QueueLoop(i, len, cnt, queue, fail, log) ==
    IF i = len THEN [res |-> "Ok", queue |-> queue, reqs |-> log]
    ELSE IF fail = [at |-> "qbuf", i |-> i] \/ i >= cnt
    THEN [res |-> "Io", queue |-> queue, reqs |-> Append(log, Req("QBUF", i, FALSE))]
    ELSE QueueLoop(i + 1, len, cnt, queue \cup {i}, fail, Append(log, Req("QBUF", i, TRUE)))

\* Camera::streamon
StreamOn_NoEnqueue(bufs, cnt, queue, fail) ==
    IF fail.at # "none"
    THEN [res |-> "Io", queue |-> queue, streaming |-> FALSE,
          reqs |-> <<Req("STREAMON", 0, FALSE)>>]
    ELSE [res |-> "Ok", queue |-> queue, streaming |-> TRUE,
          reqs |-> <<Req("STREAMON", 0, TRUE)>>]
StreamOn(bufs, cnt, queue, fail) ==
    LET q == QueueLoop(0, Len(bufs), cnt, queue, fail, <<>>)
    IN IF q.res # "Ok" THEN [res |-> "Io", queue |-> q.queue, streaming |-> FALSE, reqs |-> q.reqs]
       ELSE IF fail.at = "streamon"
       THEN [res |-> "Io", queue |-> q.queue, streaming |-> FALSE,
             reqs |-> Append(q.reqs, Req("STREAMON", 0, FALSE))]
       ELSE [res |-> "Ok", queue |-> q.queue, streaming |-> TRUE,
             reqs |-> Append(q.reqs, Req("STREAMON", 0, TRUE))]

-----------------------------------------------------------------------------
Init ==
    /\ state = "Idle"
    /\ resolution = <<0, 0>>
    /\ format = <<0, 0, 0, 0>>
    /\ buffers = <<>>
    /\ closed = FALSE
    /\ frames = EmptyBag
    /\ mapped = {}
    /\ devQueue = {}
    /\ devStreaming = FALSE
    /\ devCount = 0
    /\ op = "new"
    /\ arg = NoArg
    /\ result = "Ok"
    /\ value = <<>>
    /\ reqs = <<>>

-----------------------------------------------------------------------------
(* The public operations, as functions from the state and the device's     *)
(* replies (the record s) to the state the operation leaves.               *)

\* the assertion that opens Camera::start
StartPre_NotStreaming == state # "Streaming"
StartPre == state = "Idle"

\* the assertion that opens Camera::capture and Camera::stop
StreamingPre_NotIdle == state # "Idle"
StreamingPre == state = "Streaming"

\* the state an operation leaves when nothing changes
Same(res, log) ==
    [ res |-> res, state |-> state, resolution |-> resolution, format |-> format,
      buffers |-> buffers, mapped |-> mapped, queue |-> devQueue,
      streaming |-> devStreaming, count |-> devCount, reqs |-> log ]

\* Camera::start, after its assertion
StartRun(s) ==
    LET cfg == s.cfg
        tf == TuneFormat(cfg.resolution, cfg.format, cfg.field, s.fmt)
        ts == TuneStream(cfg.interval, s.parm)
        ab == AllocBuffers(buffers, mapped, devCount, devQueue, cfg.nbuffers, s.alloc)
        so == StreamOn(ab.buffers, ab.count, ab.queue, s.on)
        fb == FreeBuffers(ab.buffers, ab.mapped, s.unmapFail)
    IN IF tf.res # "Ok" THEN Same(tf.res, tf.reqs)
       ELSE IF ts.res # "Ok" THEN Same(ts.res, tf.reqs \o ts.reqs)
       ELSE IF ab.res # "Ok"
       THEN [Same(ab.res, tf.reqs \o ts.reqs \o ab.reqs)
                EXCEPT !.buffers = ab.buffers, !.mapped = ab.mapped,
                       !.count = ab.count, !.queue = ab.queue]
       ELSE IF so.res # "Ok"
       THEN [Same("Io", tf.reqs \o ts.reqs \o ab.reqs \o so.reqs \o fb.reqs)
                EXCEPT !.buffers = fb.buffers, !.mapped = fb.mapped,
                       !.count = ab.count, !.queue = so.queue]
       ELSE [Same("Ok", tf.reqs \o ts.reqs \o ab.reqs \o so.reqs)
                EXCEPT !.buffers = ab.buffers, !.mapped = ab.mapped,
                       !.count = ab.count, !.queue = so.queue,
                       !.streaming = so.streaming,
                       !.resolution = cfg.resolution,
                       !.format = <<cfg.format[1], cfg.format[2], cfg.format[3], cfg.format[4]>>,
                       !.state = "Streaming"]

\* Camera::streamoff: VIDIOC_STREAMOFF also empties the device's queue
StreamOff(ok) ==
    IF ok THEN [res |-> "Ok", queue |-> {}, streaming |-> FALSE,
                reqs |-> <<Req("STREAMOFF", 0, TRUE)>>]
    ELSE [res |-> "Io", queue |-> devQueue, streaming |-> devStreaming,
          reqs |-> <<Req("STREAMOFF", 0, FALSE)>>]

\* Camera::stop, after its assertion
StopRun_FreeFirst(s) ==
    LET sf == StreamOff(s.ok)
        fb == FreeBuffers(buffers, mapped, s.unmapFail)
    IN IF sf.res # "Ok"
       THEN [Same("Io", fb.reqs \o sf.reqs)
                EXCEPT !.buffers = fb.buffers, !.mapped = fb.mapped]
       ELSE IF fb.res # "Ok"
       THEN [Same("Io", fb.reqs \o sf.reqs)
                EXCEPT !.queue = sf.queue, !.streaming = sf.streaming,
                       !.buffers = fb.buffers, !.mapped = fb.mapped]
       ELSE [Same("Ok", fb.reqs \o sf.reqs)
                EXCEPT !.queue = sf.queue, !.streaming = sf.streaming,
                       !.buffers = fb.buffers, !.mapped = fb.mapped,
                       !.state = "Aborted"]
StopRun(s) ==
    LET sf == StreamOff(s.ok)
        fb == FreeBuffers(buffers, mapped, s.unmapFail)
    IN IF sf.res # "Ok" THEN Same("Io", sf.reqs)
       ELSE IF fb.res # "Ok"
       THEN [Same("Io", sf.reqs \o fb.reqs)
                EXCEPT !.queue = sf.queue, !.streaming = sf.streaming,
                       !.buffers = fb.buffers, !.mapped = fb.mapped]
       ELSE [Same("Ok", sf.reqs \o fb.reqs)
                EXCEPT !.queue = sf.queue, !.streaming = sf.streaming,
                       !.buffers = fb.buffers, !.mapped = fb.mapped,
                       !.state = "Aborted"]

-----------------------------------------------------------------------------
(* The replies the device can give to one call of start and of stop.  A    *)
(* reply to a request that is never issued keeps its value in NoArg.       *)

StartScripts(cfg) ==
    LET base == [NoArg EXCEPT !.cfg = cfg]
        Passes(s, step) ==
            LET tf == TuneFormat(cfg.resolution, cfg.format, cfg.field, s.fmt)
                ts == TuneStream(cfg.interval, s.parm)
                ab == AllocBuffers(buffers, mapped, devCount, devQueue, cfg.nbuffers, s.alloc)
                so == StreamOn(ab.buffers, ab.count, ab.queue, s.on)
            IN CASE step = 1 -> tf.res = "Ok"
                 [] step = 2 -> ts.res = "Ok"
                 [] step = 3 -> ab.res = "Ok"
                 [] step = 4 -> so.res = "Ok"
        S1 == IF Len(cfg.format) # 4 THEN {base}
              ELSE {[base EXCEPT !.fmt = fr] : fr \in FmtReplies}
        S1ok == {s \in S1 : Passes(s, 1)}
        S2 == {[s EXCEPT !.parm = pr] : s \in S1ok, pr \in ParmReplies}
        S2ok == {s \in S2 : Passes(s, 2)}
        S3 == {[s EXCEPT !.alloc = af] : s \in S2ok, af \in AllocFails(cfg.nbuffers)}
        S3ok == {s \in S3 : Passes(s, 3)}
        S4 == {[s EXCEPT !.on = f] : s \in S3ok, f \in OnFails(Len(buffers) + cfg.nbuffers)}
        S4ok == {s \in S4 : Passes(s, 4)}
        S5 == {[s EXCEPT !.unmapFail = uf] :
                  s \in S4 \ S4ok, uf \in UnmapFails(Len(buffers) + cfg.nbuffers)}
    IN (S1 \ S1ok) \cup (S2 \ S2ok) \cup (S3 \ S3ok) \cup S4ok \cup S5

StopScripts ==
    {[NoArg EXCEPT !.ok = FALSE]}
    \cup {[NoArg EXCEPT !.unmapFail = uf] : uf \in UnmapFails(Len(buffers))}

-----------------------------------------------------------------------------
(* The actions.                                                            *)

\* start, stop and the destructor take the Camera by `&mut self` or by
\* value while every Frame borrows it (capture(&self) -> Frame<'a>): the
\* borrow checker admits these calls only when no Frame is alive
NoFrameBorrowed_Unchecked == TRUE
NoFrameBorrowed == frames = EmptyBag

\* the state after an operation, from the record the operation computed
Becomes(name, s, r) ==
    /\ op' = name
    /\ arg' = s
    /\ result' = r.res
    /\ value' = <<>>
    /\ reqs' = r.reqs
    /\ state' = r.state
    /\ resolution' = r.resolution
    /\ format' = r.format
    /\ buffers' = r.buffers
    /\ mapped' = r.mapped
    /\ devQueue' = r.queue
    /\ devStreaming' = r.streaming
    /\ devCount' = r.count

\* camera.start(&config); it borrows the camera mutably, so no Frame lives
Start ==
    /\ ~closed
    /\ NoFrameBorrowed
    /\ \E cfg \in Configs :
          IF ~StartPre
          THEN Becomes("start", [NoArg EXCEPT !.cfg = cfg], Same("Panic", <<>>))
          ELSE \E s \in StartScripts(cfg) : Becomes("start", s, StartRun(s))
    /\ UNCHANGED <<closed, frames>>

\* camera.stop(); it borrows the camera mutably, so no Frame lives
Stop ==
    /\ ~closed
    /\ NoFrameBorrowed
    /\ IF ~StreamingPre
       THEN Becomes("stop", NoArg, Same("Panic", <<>>))
       ELSE \E s \in StopScripts : Becomes("stop", s, StopRun(s))
    /\ UNCHANGED <<closed, frames>>

\* the Frame a capture builds holds the index of the buffer it dequeued
FrameIndex_Next(idx) == idx + 1
FrameIndex(idx) == idx

\* camera.capture(): VIDIOC_DQBUF fails, or hands out a buffer the device
\* has in its queue (the call blocks while the queue is empty)
Capture ==
    /\ ~closed
    /\ IF ~StreamingPre
       THEN /\ Becomes("capture", NoArg, Same("Panic", <<>>))
            /\ UNCHANGED frames
       ELSE \/ /\ Becomes("capture", [NoArg EXCEPT !.ok = FALSE],
                          Same("Io", <<Req("DQBUF", 0, FALSE)>>))
               /\ UNCHANGED frames
            \/ /\ devStreaming
               /\ \E idx \in devQueue :
                     IF idx < Len(buffers)
                     THEN /\ Becomes("capture", [NoArg EXCEPT !.idx = idx],
                                     [Same("Ok", <<Req("DQBUF", idx, TRUE)>>)
                                         EXCEPT !.queue = devQueue \ {idx}])
                          /\ frames' = frames (+) SetToBag({FrameIndex(idx)})
                     ELSE /\ Becomes("capture", [NoArg EXCEPT !.idx = idx],
                                     [Same("Panic", <<Req("DQBUF", idx, TRUE)>>)
                                         EXCEPT !.queue = devQueue \ {idx}])
                          /\ UNCHANGED frames
    /\ UNCHANGED closed

\* the index Drop for Frame hands to VIDIOC_QBUF: that of its own buffer
RequeueIndex_Zero(f) == 0
RequeueIndex(f) == f

\* Drop for Frame: one VIDIOC_QBUF for the Frame's buffer, its outcome
\* discarded; the device takes a buffer it granted and does not hold
ReleaseRun_Twice(f, ok) ==
    LET i == RequeueIndex(f)
        taken == ok /\ devStreaming /\ i < devCount /\ i \notin devQueue
    IN [Same("Ok", <<Req("QBUF", i, taken), Req("QBUF", i, FALSE)>>)
           EXCEPT !.queue = IF taken THEN devQueue \cup {i} ELSE devQueue]
ReleaseRun(f, ok) ==
    LET i == RequeueIndex(f)
        taken == ok /\ devStreaming /\ i < devCount /\ i \notin devQueue
    IN [Same("Ok", <<Req("QBUF", i, taken)>>)
           EXCEPT !.queue = IF taken THEN devQueue \cup {i} ELSE devQueue]

\* a Frame goes out of scope (ok tells whether the device accepts the
\* request)
FrameDrop ==
    /\ \E f \in BagToSet(frames), ok \in BOOLEAN :
          /\ frames' = frames (-) SetToBag({f})
          /\ Becomes("release", [NoArg EXCEPT !.idx = f, !.ok = ok], ReleaseRun(f, ok))
    /\ UNCHANGED closed

\* the replies the device can give to the requests of Drop for Camera
DropScripts == IF state = "Streaming" THEN StopScripts ELSE {NoArg}

\* Drop for Camera: stop() if Streaming, its result discarded, then close
DropRun_StopUnlessAborted(s) ==
    LET r == IF state # "Aborted" THEN StopRun(s) ELSE Same("Ok", <<>>)
    IN [r EXCEPT !.res = "Ok", !.reqs = Append(r.reqs, Req("CLOSE", 0, TRUE))]
DropRun(s) ==
    LET r == IF state = "Streaming" THEN StopRun(s) ELSE Same("Ok", <<>>)
    IN [r EXCEPT !.res = "Ok", !.reqs = Append(r.reqs, Req("CLOSE", 0, TRUE))]

\* the Camera goes out of scope (no Frame can outlive it)
CameraDrop ==
    /\ ~closed
    /\ NoFrameBorrowed
    /\ \E s \in DropScripts : Becomes("drop", s, DropRun(s))
    /\ closed' = TRUE
    /\ UNCHANGED frames

-----------------------------------------------------------------------------
(* Camera::formats and the catalog the device advertises.                  *)

\* the pixel format, size and interval entries of the catalogs the model
\* tries, by their place j in the device's lists: every third size and
\* every third interval entry is not discrete (stepwise or continuous)
Pix(j) == fourcc(<<YUYV, RGB3, MJPG, H264>>[(j % 4) + 1])

IvalEntry(j) == [discrete |-> j % 3 # 0, interval |-> <<1, 5 * j>>]

IvalList(len, shift) == [k \in 1..len |-> IvalEntry(k + shift)]

SizeEntry(j, iv) ==
    [ discrete |-> j % 3 # 0, width |-> 320 * j, height |-> 240 * j,
      intervals |-> IF j % 3 # 0 THEN IvalList((iv + j) % (MaxEntries + 1), j) ELSE <<>> ]

SizeList(len, shift, iv) == [k \in 1..len |-> SizeEntry(k + shift, iv)]

FmtEntry(j, sl, iv) ==
    [ pixelformat |-> Pix(j),
      sizes |-> SizeList((sl + j) % (MaxEntries + 1), j, iv + j) ]

Catalog(len, shift, sl, iv) == [k \in 1..len |-> FmtEntry(k + shift, sl, iv)]

\* a device with one format, YUYV at 640x480 every 1/30 s
ScenarioCatalog ==
    << [ pixelformat |-> fourcc(YUYV),
         sizes |-> << [ discrete |-> TRUE, width |-> 640, height |-> 480,
                        intervals |-> <<[discrete |-> TRUE, interval |-> <<1, 30>>]>> ] >> ] >>

\* the catalogs the model tries: up to MaxEntries formats, whose lists of
\* sizes and of intervals have every length up to MaxEntries and the
\* entries that are not discrete at every place
Catalogs ==
    {Catalog(len, shift, sl, iv) :
        len \in 0..MaxEntries, shift \in 0..2, sl \in 0..MaxEntries, iv \in 0..MaxEntries}
    \cup {ScenarioCatalog}

\* the device's answer to VIDIOC_ENUM_FMT for fmt.index: the entry, if any
EnumFmt(cat, index) == IF index < Len(cat) THEN <<cat[index + 1]>> ELSE <<>>

\* the sizes the device has for a pixel format
SizesOf(cat, pix) ==
    LET m == {k \in 1..Len(cat) : cat[k].pixelformat = pix}
    IN IF m = {} THEN <<>> ELSE cat[CHOOSE k \in m : \A q \in m : k <= q].sizes

\* the device's answer to VIDIOC_ENUM_FRAMESIZES for (size.pixelformat, size.index)
EnumFrameSizes(cat, pix, index) ==
    LET s == SizesOf(cat, pix) IN IF index < Len(s) THEN <<s[index + 1]>> ELSE <<>>

\* the intervals the device has for a pixel format and a discrete size
IvalsOf(cat, pix, w, h) ==
    LET s == SizesOf(cat, pix)
        m == {k \in 1..Len(s) : s[k].discrete /\ s[k].width = w /\ s[k].height = h}
    IN IF m = {} THEN <<>> ELSE s[CHOOSE k \in m : \A q \in m : k <= q].intervals

\* the device's answer to VIDIOC_ENUM_FRAMEINTERVALS for (ival.pixelformat,
\* ival.width, ival.height, ival.index)
EnumFrameIntervals(cat, pix, w, h, index) ==
    LET s == IvalsOf(cat, pix, w, h) IN IF index < Len(s) THEN <<s[index + 1]>> ELSE <<>>

\* the outcome of the n-th request of a call: the failAt-th one fails with
\* an I/O error, an index past the end of a list is rejected as invalid
Reply(entry, n, failAt) ==
    IF n = failAt THEN "EIO" ELSE IF entry = <<>> THEN "EINVAL" ELSE "ok"

\* one enumeration request in the log
EnumReq(rq, idx, reply) == [rq |-> rq, idx |-> idx, ok |-> reply = "ok", reply |-> reply]

\* v4l2::xioctl_valid: Ok(true) for an answered request, Ok(false) for one
\* rejected as invalid, the error for any other failure
xioctl_valid(reply) ==
    CASE reply = "ok" -> "true"
      [] reply = "EINVAL" -> "false"
      [] OTHER -> "Err"

\* FormatInfo::new: the four bytes of the fourcc, least significant first
FormatBytes_BigEndian(f) ==
    <<(f \div 16777216) % 256, (f \div 65536) % 256, (f \div 256) % 256, f % 256>>
FormatBytes(f) ==
    <<f % 256, (f \div 256) % 256, (f \div 65536) % 256, (f \div 16777216) % 256>>

\* the test that guards mode.intervals.push
KeepInterval_Any(e) == TRUE
KeepInterval(e) == e.discrete

\* one v4l2::xioctl_valid call: its value, the entry the device filled in
\* (if any) and the log with the request added
Ask(rq, index, entry, log, failAt) ==
    LET reply == Reply(entry, Len(log) + 1, failAt)
    IN [ v |-> xioctl_valid(reply), entry |-> entry,
         log |-> Append(log, EnumReq(rq, index, reply)) ]

\* the element of a one-element set (used to compute a call's outcome once)
The(S) == CHOOSE x \in S : TRUE

\* the loop over VIDIOC_ENUM_FRAMEINTERVALS, from ival.index = index on
RECURSIVE IvalLoop(_, _, _, _, _, _, _, _)
IvalLoop(cat, pix, w, h, index, intervals, log, failAt) ==
    The({ IF a.v = "Err" THEN [err |-> TRUE, intervals |-> intervals, log |-> a.log]
          ELSE IF a.v = "false" THEN [err |-> FALSE, intervals |-> intervals, log |-> a.log]
          ELSE IvalLoop(cat, pix, w, h, index + 1,
                        IF KeepInterval(a.entry[1])
                        THEN Append(intervals, a.entry[1].interval)
                        ELSE intervals,
                        a.log, failAt)
          : a \in {Ask("ENUM_FRAMEINTERVALS", index,
                       EnumFrameIntervals(cat, pix, w, h, index), log, failAt)} })

\* the index the interval loop of a mode starts from
FirstIval_Carried(prev) == prev
FirstIval(prev) == 0

\* one mode: the interval loop for a discrete size; next is the value
\* ival.index has been left with
Mode(cat, pix, size, next, log, failAt) ==
    The({ [ err |-> il.err,
            mode |-> [resolution |-> <<size.width, size.height>>,
                      intervals |-> il.intervals],
            next |-> il.log[Len(il.log)].idx,
            log |-> il.log ]
          : il \in {IvalLoop(cat, pix, size.width, size.height, FirstIval(next),
                             <<>>, log, failAt)} })

\* the loop over VIDIOC_ENUM_FRAMESIZES, from size.index = index on
RECURSIVE SizeLoop(_, _, _, _, _, _, _)
SizeLoop(cat, pix, index, next, modes, log, failAt) ==
    The({ IF a.v = "Err" THEN [err |-> TRUE, modes |-> modes, next |-> next, log |-> a.log]
          ELSE IF a.v = "false"
          THEN [err |-> FALSE, modes |-> modes, next |-> next, log |-> a.log]
          ELSE IF ~a.entry[1].discrete
          THEN SizeLoop(cat, pix, index + 1, next, modes, a.log, failAt)
          ELSE The({ IF m.err
                     THEN [err |-> TRUE, modes |-> modes, next |-> m.next, log |-> m.log]
                     ELSE SizeLoop(cat, pix, index + 1, m.next, Append(modes, m.mode),
                                   m.log, failAt)
                     : m \in {Mode(cat, pix, a.entry[1], next, a.log, failAt)} })
          : a \in {Ask("ENUM_FRAMESIZES", index, EnumFrameSizes(cat, pix, index),
                       log, failAt)} })

\* the loop over VIDIOC_ENUM_FMT, from fmt.index = index on
RECURSIVE FmtLoop(_, _, _, _, _, _)
FmtLoop(cat, index, next, res, log, failAt) ==
    The({ IF a.v = "Err" THEN [err |-> TRUE, res |-> res, log |-> a.log]
          ELSE IF a.v = "false" THEN [err |-> FALSE, res |-> res, log |-> a.log]
          ELSE The({ IF sl.err THEN [err |-> TRUE, res |-> res, log |-> sl.log]
                     ELSE FmtLoop(cat, index + 1, sl.next,
                                  Append(res, [format |-> FormatBytes(a.entry[1].pixelformat),
                                               modes |-> sl.modes]),
                                  sl.log, failAt)
                     : sl \in {SizeLoop(cat, a.entry[1].pixelformat, 0, next, <<>>,
                                        a.log, failAt)} })
          : a \in {Ask("ENUM_FMT", index, EnumFmt(cat, index), log, failAt)} })

\* Camera::formats: the catalog, or the error of the request that failed
FormatsRun(cat, failAt) ==
    The({ IF l.err THEN [res |-> "Io", value |-> <<>>, reqs |-> l.log]
          ELSE [res |-> "Ok", value |-> l.res, reqs |-> l.log]
          : l \in {FmtLoop(cat, 0, 0, <<>>, <<>>, failAt)} })

\* the requests a call issues when none of them fails
RequestCount(cat) == Len(FormatsRun(cat, 0).reqs)

\* formats() asserts nothing about the state
FormatsPre_Idle == state = "Idle"
FormatsPre == TRUE

\* camera.formats() against a device with the catalog cat whose failAt-th
\* answer is an error; it borrows the camera immutably and writes no field
FormatsCall(cat, failAt) ==
    /\ ~closed
    /\ op' = "formats"
    /\ arg' = [NoArg EXCEPT !.cat = cat, !.failAt = failAt]
    /\ IF ~FormatsPre
       THEN result' = "Panic" /\ value' = <<>> /\ reqs' = <<>>
       ELSE \E r \in {FormatsRun(cat, failAt)} :
               result' = r.res /\ value' = r.value /\ reqs' = r.reqs
    /\ UNCHANGED <<state, resolution, format, buffers, closed, frames, mapped,
                   devQueue, devStreaming, devCount>>

\* formats() during a session, against the one-format device
Formats == \E failAt \in {0, 2} : FormatsCall(ScenarioCatalog, failAt)

Next == Start \/ Stop \/ Capture \/ FrameDrop \/ CameraDrop \/ Formats

Spec == Init /\ [][Next]_vars

\* a fresh Camera on a device with any of the catalogs, about to run
\* formats() with any one of its requests failing, or none
FormatsInit ==
    /\ state = "Idle"
    /\ resolution = <<0, 0>>
    /\ format = <<0, 0, 0, 0>>
    /\ buffers = <<>>
    /\ closed = FALSE
    /\ frames = EmptyBag
    /\ mapped = {}
    /\ devQueue = {}
    /\ devStreaming = FALSE
    /\ devCount = 0
    /\ op = "new"
    /\ arg \in {[NoArg EXCEPT !.cat = cat, !.failAt = failAt] :
                   cat \in Catalogs, failAt \in 0..(MaxEntries + 1) * (MaxEntries + 1) * (MaxEntries + 1)}
    /\ arg.failAt <= RequestCount(arg.cat)
    /\ result = "Ok"
    /\ value = <<>>
    /\ reqs = <<>>

FormatsOfCatalog == op = "new" /\ FormatsCall(arg.cat, arg.failAt)

FormatsSpec == FormatsInit /\ [][FormatsOfCatalog]_vars

-----------------------------------------------------------------------------
(* A client that starts a session and then forever captures until it holds *)
(* a Frame for every buffer of the pool, releases them all, and captures   *)
(* again, against a device that fails no VIDIOC_DQBUF or VIDIOC_QBUF and   *)
(* eventually completes every buffer in its queue.  The operation that ran *)
(* last tells where the client is in its loop.                             *)

ClientStart == state = "Idle" /\ Start

ClientCapture ==
    /\ \/ op = "start"
       \/ op = "capture" /\ BagCardinality(frames) < Len(buffers)
       \/ op = "release" /\ frames = EmptyBag
    /\ Capture
    /\ result' = "Ok"

ClientRelease ==
    /\ \/ op = "capture" /\ BagCardinality(frames) = Len(buffers)
       \/ op = "release"
    /\ FrameDrop
    /\ reqs'[1].ok

LiveNext == ClientStart \/ ClientCapture \/ ClientRelease

\* the device completes a queued buffer (the blocked capture returns) and
\* the client goes on with the next call of its loop
LiveSpec ==
    Init /\ [][LiveNext]_vars /\ WF_vars(ClientCapture) /\ WF_vars(ClientRelease)

-----------------------------------------------------------------------------
(* Vocabulary of the properties.                                           *)

\* the entries of a request log of one kind, in order
Only(log, kind) == LET Is(e) == e.rq = kind IN SelectSeq(log, Is)

\* the indices (or regions) the entries of a log name, in order
Indices(log) == [k \in 1..Len(log) |-> log[k].idx]

\* the regions a log shows being mapped
MappedBy(log) == {log[k].idx : k \in {j \in 1..Len(log) : log[j].rq = "MMAP" /\ log[j].ok}}

\* the regions a log shows a munmap request for
UnmapRequested(log) == {log[k].idx : k \in {j \in 1..Len(log) : log[j].rq = "MUNMAP"}}

\* every request of the log succeeded
AllOk(log) == \A k \in 1..Len(log) : log[k].ok

\* the positions of the log where the enable-streaming step failed
OnFailures(log) == {k \in 1..Len(log) : log[k].rq \in {"QBUF", "STREAMON"} /\ ~log[k].ok}

\* a/b and c/d are the same rational: a*d = b*c over the integers
RationallyEqual(iv, jv) == WideMul(iv[1], jv[2]) = WideMul(iv[2], jv[1])

\* the device answered VIDIOC_S_FMT with exactly what cfg asks for
ExactFormat(cfg, reply) ==
    /\ reply.ok
    /\ reply.resolution = cfg.resolution
    /\ reply.pixelformat = fourcc(cfg.format)
    /\ reply.field = cfg.field

\* the buffer indices held by live Frames
Held(fr) == BagToSet(fr)

-----------------------------------------------------------------------------
(* C1: once the session is Aborted it stays Aborted, and a stop() that     *)
(* returned Ok has left it Aborted; every start(), capture() and stop()    *)
(* issued in Aborted faults (panics) instead of returning a value.         *)
C1_AbortedIsTerminal ==
    [][ /\ (op' = "stop" /\ result' = "Ok") => state' = "Aborted"
        /\ state = "Aborted" =>
              /\ state' = "Aborted"
              /\ op' \in {"start", "capture", "stop"} => result' = "Panic" /\ reqs' = <<>>
      ]_vars

C1_Witness == state = "Aborted" /\ op = "start" /\ result = "Panic"

(* C2: a start() with a four-byte format code, to which the device echoes  *)
(* resolution, format and field, answers a rationally equal interval, and  *)
(* fails no request, returns Ok, leaves the session Streaming and records   *)
(* the configuration's resolution and format.                              *)
C2_ExactEchoStarts ==
    ( /\ op = "start"
      /\ Len(arg.cfg.format) = 4
      /\ ExactFormat(arg.cfg, arg.fmt)
      /\ arg.parm.ok
      /\ RationallyEqual(arg.cfg.interval, arg.parm.timeperframe)
      /\ AllOk(reqs) )
    => /\ result = "Ok"
       /\ state = "Streaming"
       /\ resolution = arg.cfg.resolution
       /\ format = arg.cfg.format

(* C3: a start() whose format reply differs from the request fails with    *)
(* BadResolution, else BadFormat, else BadField (in that order), leaves    *)
(* the session Idle and the buffer pool empty, whatever ran before.        *)
C3_MismatchLeavesNothing ==
    ( /\ op = "start"
      /\ arg.fmt.ok
      /\ ~ExactFormat(arg.cfg, arg.fmt) )
    => /\ result = ( IF arg.fmt.resolution # arg.cfg.resolution THEN "BadResolution"
                     ELSE IF arg.fmt.pixelformat # fourcc(arg.cfg.format) THEN "BadFormat"
                     ELSE "BadField" )
       /\ state = "Idle"
       /\ Len(buffers) = 0

(* C4: once the format is negotiated, a returned interval with a zero      *)
(* numerator or denominator, or one that is not rationally equal to the    *)
(* requested interval, makes start() fail with BadInterval.                *)
C4_UnequalIntervalRejected ==
    ( /\ op = "start"
      /\ arg.parm.ok
      /\ \/ arg.parm.timeperframe[1] = Zero32
         \/ arg.parm.timeperframe[2] = Zero32
         \/ ~RationallyEqual(arg.cfg.interval, arg.parm.timeperframe) )
    => result = "BadInterval"

(* C5: a stop() that fails (stream-off or an unmap failed) nevertheless    *)
(* leaves the session Aborted.                                             *)
C5_FailedStopAborts ==
    (op = "stop" /\ result = "Io") => state = "Aborted"

(* C6: whichever step of start() fails, the session is Idle, the device    *)
(* is not streaming, the pool is empty and every region this start()       *)
(* mapped has been handed to munmap.                                       *)
C6_FailedStartCleansUp ==
    (op = "start" /\ result \notin {"Ok", "Panic"})
    => /\ state = "Idle"
       /\ ~devStreaming
       /\ buffers = <<>>
       /\ MappedBy(reqs) \subseteq UnmapRequested(reqs)

(* C7: when the enable-streaming step of start() fails (an enqueue or the  *)
(* stream-on request), start() then hands every region of the pool to      *)
(* munmap, once and in pool order, clears the pool, returns Error::Io and  *)
(* leaves the session Idle; a region whose munmap succeeded is no longer   *)
(* mapped.                                                                 *)
C7_StreamOnFailureFreesPool ==
    [][ (op' = "start" /\ OnFailures(reqs') # {}) =>
           LET k == CHOOSE j \in OnFailures(reqs') : TRUE
               pool == buffers \o Indices(Only(SubSeq(reqs', 1, k), "MMAP"))
               tail == SubSeq(reqs', k + 1, Len(reqs'))
           IN /\ Cardinality(OnFailures(reqs')) = 1
              /\ AllOk(SubSeq(reqs', 1, k - 1))
              /\ \A j \in 1..Len(tail) : tail[j].rq = "MUNMAP"
              /\ Indices(tail) = pool
              /\ \A j \in 1..Len(tail) : tail[j].ok => tail[j].idx \notin mapped'
              /\ buffers' = <<>>
              /\ result' = "Io"
              /\ state = "Idle" /\ state' = "Idle"
      ]_vars

C7_Witness ==
    /\ op = "start"
    /\ OnFailures(reqs) # {}
    /\ Len(Only(reqs, "MUNMAP")) = 2
    /\ result = "Io"
    /\ buffers = <<>>

(* C8: while the session is Streaming the pool holds exactly as many       *)
(* regions as the start() that entered Streaming asked for (the count the  *)
(* device granted to that start()).                                        *)
C8_StreamingPoolSize ==
    state = "Streaming" => Len(buffers) = devCount

(* C9: releasing a live Frame issues one VIDIOC_QBUF, for that Frame's     *)
(* index; when the device takes it the index is queued again and a later   *)
(* capture() can return it.  A successful start() queues every pool index, *)
(* a successful capture() moves one index from the device's queue to a     *)
(* Frame, and a release the device takes moves it back: no index is lost.  *)
C9_ReleaseRequeuesSameIndex ==
    [][ /\ (op' = "start" /\ result' = "Ok") =>
              devQueue' = 0..(Len(buffers') - 1)
        /\ (op' = "capture" /\ result' = "Ok") =>
              /\ arg'.idx \in devQueue
              /\ frames' = frames (+) SetToBag({arg'.idx})
              /\ Held(frames') \cup devQueue' = Held(frames) \cup devQueue
        /\ op' = "release" =>
              /\ reqs' = <<Req("QBUF", arg'.idx, reqs'[1].ok)>>
              /\ BagIn(arg'.idx, frames)
              /\ frames' = frames (-) SetToBag({arg'.idx})
              /\ reqs'[1].ok =>
                    /\ Held(frames') \cup devQueue' = Held(frames) \cup devQueue
                    /\ arg'.idx \in devQueue'
                    /\ state' = "Streaming" /\ devStreaming'
                    /\ arg'.idx < Len(buffers')
      ]_vars

C9_Witness ==
    /\ op = "release"
    /\ reqs[1].ok
    /\ arg.idx \in devQueue
    /\ frames # EmptyBag

(* C10: with a device that only completes buffers it has in its queue, no  *)
(* buffer index is held by two live Frames, every live Frame's index is    *)
(* below the pool size, and the assertion of capture() on the dequeued     *)
(* index never fails.                                                      *)
C10_OneFramePerIndex ==
    /\ \A i \in Held(frames) : CopiesIn(i, frames) = 1 /\ i < Len(buffers)
    /\ ~(op = "capture" /\ result = "Panic" /\ reqs # <<>>)

C10_Witness ==
    /\ op = "capture"
    /\ result = "Ok"
    /\ BagCardinality(frames) = 2

(* C11: after a successful start() with N buffers, N capture() calls made *)
(* without a release all return and the N Frames hold the indices 0..N-1,  *)
(* each once; once they are all released, N further capture() calls return *)
(* likewise.                                                               *)
AllHeld ==
    /\ state = "Streaming"
    /\ Len(buffers) = devCount
    /\ Held(frames) = 0..(devCount - 1)
    /\ \A i \in Held(frames) : CopiesIn(i, frames) = 1

C11_CapturesReturnAllIndices ==
    /\ (op = "start" /\ result = "Ok") ~> AllHeld
    /\ (op = "release" /\ frames = EmptyBag) ~> AllHeld

C11_Witness ==
    /\ AllHeld
    /\ devCount = 2
    /\ devQueue = {}
    /\ op = "capture"

(* C12: once the teardown of the session has closed the device handle, no *)
(* region the session mapped is left mapped without having been handed to  *)
(* munmap.  The pool holds exactly the mapped regions that munmap was      *)
(* never called on (free_buffers clears the pool after calling munmap on   *)
(* each entry), so this says that no region of the pool is still mapped.   *)
C12_TeardownUnmapsAll ==
    closed => \A p \in 1..Len(buffers) : buffers[p] \notin mapped

(* C13: the teardown of a Streaming session first attempts stop()        *)
(* (stream-off, then munmap of every pool entry if stream-off succeeded)   *)
(* and discards its error; the teardown of an Idle or Aborted session      *)
(* issues no stream-off and no munmap.  In both cases the handle is closed *)
(* once, by the last request of the teardown; no other operation closes    *)
(* it, and no operation runs on the session after it.                      *)
C13_TeardownStopsThenCloses ==
    [][ /\ ~closed
        /\ op' # "drop" => ~closed' /\ Only(reqs', "CLOSE") = <<>>
        /\ op' = "drop" =>
              LET body == SubSeq(reqs', 1, Len(reqs') - 1)
              IN /\ closed'
                 /\ result' = "Ok"
                 /\ reqs'[Len(reqs')] = Req("CLOSE", 0, TRUE)
                 /\ Only(body, "CLOSE") = <<>>
                 /\ IF state = "Streaming"
                    THEN /\ body[1].rq = "STREAMOFF"
                         /\ Indices(Only(body, "MUNMAP")) =
                               (IF body[1].ok THEN buffers ELSE <<>>)
                         /\ Len(body) = 1 + Len(Only(body, "MUNMAP"))
                    ELSE body = <<>>
      ]_vars

C13_Witness ==
    /\ closed
    /\ op = "drop"
    /\ state = "Streaming"
    /\ reqs[1] = Req("STREAMOFF", 0, FALSE)
    /\ result = "Ok"

(* C14: start() called in a state other than Idle, and capture() or       *)
(* stop() called in a state other than Streaming, panics: it returns no    *)
(* value, issues no device request and leaves the state, the pool, the     *)
(* mappings and the device as they were.                                   *)
C14_WrongStatePanics ==
    [][ ( \/ op' = "start" /\ state # "Idle"
          \/ op' \in {"capture", "stop"} /\ state # "Streaming" )
        => /\ result' = "Panic"
           /\ reqs' = <<>>
           /\ state' = state
           /\ buffers' = buffers
           /\ mapped' = mapped
           /\ frames' = frames
           /\ <<devQueue', devStreaming', devCount'>> = <<devQueue, devStreaming, devCount>>
      ]_vars

C14_Witness ==
    /\ op = "capture"
    /\ result = "Panic"
    /\ state = "Idle"
    /\ buffers # <<>>

(* C15: the end of a Frame's lifetime issues exactly one request, a        *)
(* VIDIOC_QBUF for that Frame's buffer index; nothing is returned to the   *)
(* caller, the session's state, recorded format and pool are unchanged,    *)
(* and a refused request leaves the device's queue as it was.              *)
C15_ReleaseIssuesOneQbuf ==
    [][ op' = "release" =>
           /\ BagIn(arg'.idx, frames)
           /\ BagCardinality(frames') = BagCardinality(frames) - 1
           /\ Len(reqs') = 1
           /\ reqs'[1].rq = "QBUF"
           /\ reqs'[1].idx = arg'.idx
           /\ result' = "Ok"
           /\ <<state', resolution', format', buffers', mapped', closed'>>
                 = <<state, resolution, format, buffers, mapped, closed>>
           /\ ~reqs'[1].ok => devQueue' = devQueue
      ]_vars

C15_Witness ==
    /\ op = "release"
    /\ ~reqs[1].ok
    /\ arg.idx \notin devQueue
    /\ state = "Streaming"
    /\ Len(buffers) = devCount

(* C16: start() issues its requests in the order S_FMT, S_PARM, REQBUFS,  *)
(* then QUERYBUF and mmap for the indices 0..N-1, then QBUF for the pool   *)
(* indices from 0, then STREAMON, and stops at the first step that fails:  *)
(* nothing follows a failed negotiation or allocation request, only the    *)
(* munmap calls of the cleanup follow a failed QBUF or STREAMON, STREAMON  *)
(* is issued only after a successful QBUF of every pool index, and a       *)
(* format code that is not four bytes long gives BadFormat with no         *)
(* request at all.                                                         *)
Rank(e) ==
    CASE e.rq = "S_FMT" -> 1
      [] e.rq = "S_PARM" -> 2
      [] e.rq = "REQBUFS" -> 3
      [] e.rq \in {"QUERYBUF", "MMAP"} -> 4
      [] e.rq = "QBUF" -> 5
      [] e.rq = "STREAMON" -> 6
      [] OTHER -> 7

C16_StartStepsInOrder ==
    [][ (op' = "start" /\ result' # "Panic") =>
           LET log == reqs'
               n == Len(log)
               granted == Len(Only(log, "MMAP"))
               q == Only(log, "QUERYBUF")
               e == Only(log, "QBUF")
           IN /\ Len(arg'.cfg.format) # 4 => result' = "BadFormat" /\ log = <<>>
              /\ Len(arg'.cfg.format) = 4 => log # <<>> /\ log[1].rq = "S_FMT"
              /\ \A k \in 1..n : log[k].rq \in {"S_FMT", "S_PARM", "REQBUFS", "QUERYBUF",
                                                "MMAP", "QBUF", "STREAMON", "MUNMAP"}
              \* each request is of the same step as the one before it or of
              \* the next step, and follows a request that succeeded; only
              \* the munmap calls of the cleanup follow a failed QBUF or STREAMON
              /\ \A k \in 1..(n - 1) :
                    IF log[k + 1].rq = "MUNMAP"
                    THEN \/ log[k].rq = "MUNMAP"
                         \/ ~log[k].ok /\ log[k].rq \in {"QBUF", "STREAMON"}
                    ELSE /\ log[k].ok
                         /\ Rank(log[k]) <= Rank(log[k + 1])
                         /\ Rank(log[k + 1]) <= Rank(log[k]) + 1
                         /\ log[k].rq = log[k + 1].rq => log[k].rq = "QBUF"
                         /\ log[k].rq = "QUERYBUF" <=> log[k + 1].rq = "MMAP"
              /\ result' \in {"BadResolution", "BadFormat", "BadField"} => n <= 1
              /\ result' = "BadInterval" => n = 2
              /\ Indices(q) = [k \in 1..Len(q) |-> k - 1]
              /\ Len(q) <= arg'.cfg.nbuffers
              /\ Indices(e) = [k \in 1..Len(e) |-> k - 1]
              /\ e # <<>> => granted = arg'.cfg.nbuffers
              /\ Only(log, "STREAMON") # <<>> => Len(e) = Len(buffers) + granted /\ AllOk(e)
      ]_vars

C16_Witness ==
    /\ op = "start"
    /\ result = "Ok"
    /\ Len(reqs) = 10
    /\ reqs[10] = Req("STREAMON", 0, TRUE)

(* C17: a stop() that returns Ok in Streaming has issued STREAMOFF first,  *)
(* then one successful munmap for each entry of the pool in pool order and *)
(* nothing else; it leaves the pool empty, no region of the pool mapped    *)
(* and the state Aborted, and a stop() reaches Aborted only by returning   *)
(* Ok after these requests.                                                *)
C17_StopOrder ==
    [][ (op' = "stop" /\ (result' = "Ok" \/ state' # state)) =>
           /\ state = "Streaming"
           /\ result' = "Ok"
           /\ state' = "Aborted"
           /\ Len(reqs') = 1 + Len(buffers)
           /\ reqs'[1] = Req("STREAMOFF", 0, TRUE)
           /\ \A p \in 1..Len(buffers) : reqs'[p + 1] = Req("MUNMAP", buffers[p], TRUE)
           /\ buffers' = <<>>
           /\ mapped' = mapped \ {buffers[p] : p \in 1..Len(buffers)}
           /\ ~devStreaming'
      ]_vars

C17_Witness ==
    /\ op = "stop"
    /\ result = "Ok"
    /\ state = "Aborted"
    /\ Len(reqs) = 3
    /\ buffers = <<>>
    /\ mapped = {}

(* C18: while a Frame produced by capture() is live the session is        *)
(* Streaming and open, the Frame's index names a pool entry whose region   *)
(* is mapped, and the only operations that can run are capture(),          *)
(* formats() and the release of a Frame: the pool, the set of mapped       *)
(* regions, the state and the device handle stay as they are, so every     *)
(* re-enqueue of a release reaches a device that is still streaming and    *)
(* still open.                                                             *)
C18_PoolOutlivesFrames ==
    [][ /\ frames # EmptyBag =>
              /\ state = "Streaming" /\ ~closed /\ devStreaming
              /\ \A f \in Held(frames) : f < Len(buffers) /\ buffers[f + 1] \in mapped
              /\ op' \in {"capture", "release", "formats"}
              /\ buffers' = buffers /\ mapped' = mapped
              /\ state' = state /\ closed' = closed /\ devStreaming' = devStreaming
        /\ op' \in {"stop", "drop"} => frames = EmptyBag
        /\ BagCardinality(frames') < BagCardinality(frames) =>
              /\ op' = "release"
              /\ reqs' = <<Req("QBUF", arg'.idx, reqs'[1].ok)>>
              /\ arg'.idx \in Held(frames)
              /\ ~closed' /\ devStreaming'
      ]_vars

C18_Witness ==
    /\ op = "release"
    /\ frames # EmptyBag
    /\ Len(buffers) = 2
    /\ \A p \in 1..Len(buffers) : buffers[p] \in mapped

(* C19: for every catalog of the device, a formats() call none of whose    *)
(* requests fails returns Ok with one FormatInfo per advertised format in  *)
(* index order, carrying the bytes of its fourcc, one mode per discrete    *)
(* size of the format in index order and, in each mode, the discrete       *)
(* intervals of that size in index order; it asks for the indices 0, 1,    *)
(* ... of each list and leaves a list only at the index the device         *)
(* rejects as invalid.  A request that fails in any other way is the last  *)
(* one of the call, which returns the error and no catalog.                *)
RECURSIVE Sum(_)
Sum(s) == IF s = <<>> THEN 0 ELSE Head(s) + Sum(Tail(s))

Discrete(list) == LET D(e) == e.discrete IN SelectSeq(list, D)

ExpectedIntervals(list) ==
    LET d == Discrete(list) IN [k \in 1..Len(d) |-> d[k].interval]

ExpectedModes(sizes) ==
    LET d == Discrete(sizes)
    IN [k \in 1..Len(d) |-> [resolution |-> <<d[k].width, d[k].height>>,
                             intervals |-> ExpectedIntervals(d[k].intervals)]]

\* the requests a complete enumeration takes: one more than its entries for
\* the formats, for the sizes of each format and for the intervals of each
\* discrete size
ExpectedRequests(cat) ==
    (Len(cat) + 1)
    + Sum([k \in 1..Len(cat) |->
             (Len(cat[k].sizes) + 1)
             + Sum([j \in 1..Len(Discrete(cat[k].sizes)) |->
                      Len(Discrete(cat[k].sizes)[j].intervals) + 1])])

Rejected(log) == LET R(e) == e.reply = "EINVAL" IN SelectSeq(log, R)

C19_FormatsReturnsCatalog ==
    op = "formats" =>
        LET cat == arg.cat
            n == Len(reqs)
        IN /\ result \in {"Ok", "Io"}
           /\ result = "Ok" <=> arg.failAt = 0
           /\ result = "Ok" =>
                 /\ Len(value) = Len(cat)
                 /\ \A k \in 1..Len(cat) :
                       /\ Len(value[k].format) = 4
                       /\ fourcc(value[k].format) = cat[k].pixelformat
                       /\ value[k].modes = ExpectedModes(cat[k].sizes)
                 /\ n = ExpectedRequests(cat)
                 /\ Indices(Only(reqs, "ENUM_FMT")) = [k \in 1..(Len(cat) + 1) |-> k - 1]
                 /\ reqs[n] = EnumReq("ENUM_FMT", Len(cat), "EINVAL")
                 /\ Len(Rejected(reqs))
                       = 1 + Len(cat) + Sum([k \in 1..Len(cat) |-> Len(Discrete(cat[k].sizes))])
                 /\ \A k \in 1..n : reqs[k].reply \in {"ok", "EINVAL"}
           /\ result = "Io" =>
                 /\ value = <<>>
                 /\ n = arg.failAt
                 /\ reqs[n].reply = "EIO"
                 /\ \A k \in 1..(n - 1) : reqs[k].reply \in {"ok", "EINVAL"}
           /\ \A k \in 1..n :
                 /\ reqs[k].rq \in {"ENUM_FMT", "ENUM_FRAMESIZES", "ENUM_FRAMEINTERVALS"}
                 /\ k < n /\ reqs[k].rq = reqs[k + 1].rq /\ reqs[k].reply = "ok"
                       => reqs[k + 1].idx = reqs[k].idx + 1
                 /\ k < n /\ reqs[k].rq # reqs[k + 1].rq /\ reqs[k].reply = "ok"
                       => reqs[k + 1].idx = 0

C19_Witness ==
    /\ op = "formats"
    /\ result = "Ok"
    /\ Len(value) = 2
    /\ \E k \in 1..2 : value[k].modes # <<>> /\ Len(value[k].modes) < Len(arg.cat[k].sizes)
    /\ \E k \in 1..2 : \E m \in 1..Len(value[k].modes) :
          /\ value[k].modes[m].intervals # <<>>
          /\ Len(value[k].modes[m].intervals)
                < Len(IvalsOf(arg.cat, arg.cat[k].pixelformat,
                              value[k].modes[m].resolution[1],
                              value[k].modes[m].resolution[2]))

(* C20 as stated: formats() is callable only while the session is Idle;    *)
(* it leaves the state, the recorded resolution and format and the pool    *)
(* unchanged and issues only enumeration requests.                         *)
C20_FormatsOnlyWhileIdle ==
    [][ op' = "formats" /\ result' # "Panic" =>
           /\ state = "Idle"
           /\ UNCHANGED <<state, resolution, format, buffers>>
           /\ \A k \in 1..Len(reqs') :
                 reqs'[k].rq \in {"ENUM_FMT", "ENUM_FRAMESIZES", "ENUM_FRAMEINTERVALS"}
      ]_vars

(* C20 as amended: formats() is callable in every state of an open         *)
(* session, also while Frames are live, and returns a value instead of     *)
(* faulting; whether it succeeds or fails it leaves the state, the         *)
(* recorded resolution and format, the pool, the mappings, the live Frames *)
(* and the device's queue unchanged and issues only enumeration requests.  *)
C20_FormatsReadOnly ==
    [][ op' = "formats" =>
           /\ result' \in {"Ok", "Io"}
           /\ UNCHANGED <<state, resolution, format, buffers, closed, frames, mapped,
                          devQueue, devStreaming, devCount>>
           /\ \A k \in 1..Len(reqs') :
                 reqs'[k].rq \in {"ENUM_FMT", "ENUM_FRAMESIZES", "ENUM_FRAMEINTERVALS"}
      ]_vars

C20_Witness ==
    /\ op = "formats"
    /\ state = "Streaming"
    /\ frames # EmptyBag
    /\ result = "Io"
    /\ buffers # <<>>

====
